---- MODULE Spec2Model ----
(***************************************************************************)
(* GameSense AI (frontend/app.py): the storage synchronisation logic       *)
(* (whole-document JSON on a remote contents API with a revision token,    *)
(* a local fallback file and a daily snapshot), the credential check with  *)
(* its legacy migration, the page handlers that mutate the document, and   *)
(* the export's hard wrap.                                                 *)
(*                                                                         *)
(* A browser session re-executes the whole script on every interaction:    *)
(* load_storage, ensure_daily_backup, then at most one handler.  Each      *)
(* remote call is one atomic step, so two sessions interleave at the calls.*)
(***************************************************************************)
EXTENDS Integers, Sequences, FiniteSets, TLC

\* ------------------------------------------------------------------ bounds
MaxRuns == 2          \* script runs (interactions) of the single session
MaxRunsDuo == 1       \* script runs of each of two concurrent sessions
MaxRunsAuth == 3      \* script runs of a session that signs in, out and in
MaxFaults == 1        \* remote calls the environment may fail in a behaviour
MaxSessions == 2      \* session records after which uploads stop
MaxSegs == 3          \* segments of an export text

\* ------------------------------------------------------------------ values
Sessions == {"A", "B"}
Emails == {"a@x", "b@x"}
Passwords == {"p", "q"}
Blank == ""                               \* an empty text input
NoOne == "none"                           \* st.session_state["user"] is None
Today == "20240102"
Yesterday == "20240101"
NoSha == 0                                \* sha None: no revision token

None == <<>>                              \* a key the dict does not have
Some(x) == <<x>>

\* passlib's pbkdf2_sha256.hash: a string in the scheme's format that
\* verifies exactly the password it was made from (the salt is left out).
hash_pw(password) == <<"$pbkdf2-sha256$", password>>

\* pbkdf2_sha256.verify raises on a string that is not in the scheme's
\* format; verify_pw turns that into False.
verify_pw(password, hashed) ==
    /\ Len(hashed) = 2
    /\ hashed[1] = "$pbkdf2-sha256$"
    /\ hashed[2] = password

GarbageHash == <<"not-a-hash">>           \* a non-empty string, no valid hash
EmptyHash == <<>>                         \* the string ""

\* isinstance(ph, str) and ph
UsableHash(ph) == ph # None /\ ph # Some(EmptyHash)

UserRec(ph, pw, m) == [password_hash |-> ph, password |-> pw, membership |-> m]

NoUsers == [e \in {} |-> None]             \* the empty "users" dict

default_storage == [users |-> NoUsers, sessions |-> <<>>, last_backup |-> ""]

\* json.dumps(storage, ...): the text of a document.  A file may also hold
\* text that is no JSON document.
Dumps(doc) == [json |-> TRUE, doc |-> doc]
CorruptText == [json |-> FALSE, doc |-> default_storage]

\* json.loads in try/except, then the three setdefault calls.
ParseStorage(txt) == IF txt.json THEN txt.doc ELSE default_storage

IsStorage(d) ==
    /\ DOMAIN d = {"users", "sessions", "last_backup"}
    /\ DOMAIN d.users \subseteq Emails
    /\ d.sessions \in Seq([id : (Sessions \cup {"old"}) \X Nat, user : Emails \cup {NoOne}])

NoFile == [exists |-> FALSE, txt |-> CorruptText, sha |-> NoSha]
FileOf(doc, sha) == [exists |-> TRUE, txt |-> Dumps(doc), sha |-> sha]

\* ---------------------------------------------------------------- variables
VARIABLES
    ghOn,          \* GH_TOKEN and GH_REPO and GH_JSON_PATH are configured
    remote,        \* the remote file GH_JSON_PATH
    backupFile,    \* the remote file GH_BACKUP_DIR/storage-<today>.json
    localFile,     \* LOCAL_STORAGE_FILE
    budget,        \* remote calls the environment may fail
    limit,         \* per session: script runs it may start
    faults,        \* remote calls it has failed
    pc,            \* per session: position in the script
    storage,       \* per session: the module-level document
    storage_sha,   \* per session: the module-level revision token
    user,          \* per session: st.session_state["user"]
    runs,          \* per session: script runs started
    ret,           \* per session: where persist() returns to
    fresh_sha,     \* per session: save_storage's local fresh_sha
    h,             \* per session: history of the current run (see NoHist)
    backupWrites,  \* accepted writes of the snapshot file
    backupCalls,   \* completed ensure_daily_backup calls
    lastWriter,    \* session whose write of GH_JSON_PATH was accepted last
    text,          \* export: the input text
    wrapped,       \* export: the output of hard_wrap_tokens
    wpc            \* export: position

storeVars == <<remote, backupFile, localFile>>
envVars == <<ghOn, budget, limit>>
wrapVars == <<text, wrapped, wpc>>
vars == <<ghOn, remote, backupFile, localFile, budget, limit, faults, pc, storage,
          storage_sha, user, runs, ret, fresh_sha, h, backupWrites,
          backupCalls, lastWriter, text, wrapped, wpc>>

\* History of a session's current script run.
NoHist == [
    src |-> "none",          \* where load_storage got the document
    readFailed |-> FALSE,    \* load_storage's read of an existing file failed
    base |-> NoSha,          \* revision load_storage read
    saves |-> 0,             \* save_storage calls started in this run
    shaIn |-> NoSha,         \* current_sha of the running save_storage call
    calls |-> <<>>,          \* remote calls of the running save_storage call
    outcome |-> "none",      \* how the last save_storage call ended
    saved |-> CorruptText,   \* text of the last completed save_storage call
    op |-> "none",           \* handler that ran
    by |-> NoOne,            \* USER when it ran
    email |-> Blank,         \* its email input
    password |-> Blank,      \* its password input
    before |-> default_storage,  \* the document when the handler started
    authed |-> FALSE,        \* what authenticate returned
    persisted |-> FALSE,     \* the handler called persist()
    msg |-> "none",          \* message the handler showed
    migrated |-> {}]         \* <<email, password>> of the legacy records that
                             \* sign-ins of the session's earlier runs migrated

\* ------------------------------------------------------- remote contents API
\* What the environment does with one remote call.
Outcomes == IF faults < budget THEN {"served", "http_error", "exception"} ELSE {"served"}
Failed(o) == IF o = "served" THEN 0 ELSE 1

\* The store's compare-and-swap: an update must carry the file's current
\* revision token, a create carries none.
StoreAccepts(file, sha) ==
    IF file.exists THEN sha # NoSha /\ sha = file.sha ELSE sha = NoSha

StoreWrite(file, txt) == [exists |-> TRUE, txt |-> txt, sha |-> file.sha + 1]

\* gh_get_file without its try/except: a request that raises propagates.
gh_get_file_Unguarded(file, o) ==
    IF o = "served" /\ file.exists
    THEN [none |-> FALSE, txt |-> file.txt, sha |-> file.sha, raised |-> FALSE]
    ELSE [none |-> TRUE, txt |-> CorruptText, sha |-> NoSha, raised |-> o = "exception"]

\* gh_get_file: (text, sha), or (None, None) if the file is missing, the
\* status is an error or the request raised.
gh_get_file(file, o) ==
    IF o = "served" /\ file.exists
    THEN [none |-> FALSE, txt |-> file.txt, sha |-> file.sha, raised |-> FALSE]
    ELSE [none |-> TRUE, txt |-> CorruptText, sha |-> NoSha, raised |-> FALSE]

\* gh_put_text as an upsert: called without a token it sends the token the
\* file has.
gh_put_text_Upsert(file, txt, sha, o) ==
    IF o = "served" /\ StoreAccepts(file, IF sha = NoSha THEN file.sha ELSE sha)
    THEN [ok |-> TRUE, file |-> StoreWrite(file, txt), raised |-> FALSE]
    ELSE [ok |-> FALSE, file |-> file, raised |-> FALSE]

\* gh_put_text that never puts the token in the request body.
gh_put_text_NoToken(file, txt, sha, o) ==
    IF o = "served" /\ StoreAccepts(file, NoSha)
    THEN [ok |-> TRUE, file |-> StoreWrite(file, txt), raised |-> FALSE]
    ELSE [ok |-> FALSE, file |-> file, raised |-> FALSE]

\* gh_put_text: ok is status in (200, 201); an exception gives ok = False.
\* "file" is the remote file after the call.
gh_put_text(file, txt, sha, o) ==
    IF o = "served" /\ StoreAccepts(file, sha)
    THEN [ok |-> TRUE, file |-> StoreWrite(file, txt), raised |-> FALSE]
    ELSE [ok |-> FALSE, file |-> file, raised |-> FALSE]

\* ------------------------------------------------------------- load_storage
\* Lines 166-175: create the local file if missing, then read it.
LocalFallback(lf) ==
    LET f == IF lf.exists THEN lf ELSE FileOf(default_storage, NoSha)
    IN  [file |-> f, doc |-> ParseStorage(f.txt)]

\* The run that ends was a sign-in accepted on a record without a usable
\* hash: the legacy branch (lines 251-257).
Migration(hs) ==
    IF /\ hs.op = "signin"
       /\ hs.authed
       /\ ~UsableHash(hs.before.users[hs.email].password_hash)
    THEN {<<hs.email, hs.password>>}
    ELSE {}

StartHist(s) ==
    [NoHist EXCEPT !.saved = h[s].saved, !.outcome = h[s].outcome,
                   !.migrated = h[s].migrated \cup Migration(h[s])]

\* The script starts: load_storage up to its first remote call's result.
LoadStorage(s) ==
    /\ pc[s] = "idle"
    /\ runs[s] < limit[s]
    /\ runs' = [runs EXCEPT ![s] = @ + 1]
    /\ IF ghOn
       THEN \E o \in Outcomes :
              LET r == gh_get_file(remote, o) IN
              /\ faults' = faults + Failed(o)
              /\ IF r.raised
                 THEN /\ pc' = [pc EXCEPT ![s] = "crashed"]
                      /\ h' = [h EXCEPT ![s] = StartHist(s)]
                      /\ UNCHANGED <<storage, storage_sha>>
                 ELSE IF r.none
                 THEN /\ pc' = [pc EXCEPT ![s] = "load_init"]
                      /\ h' = [h EXCEPT ![s] =
                                 [StartHist(s) EXCEPT !.readFailed = remote.exists]]
                      /\ UNCHANGED <<storage, storage_sha>>
                 ELSE /\ pc' = [pc EXCEPT ![s] = "backup"]
                      /\ storage' = [storage EXCEPT ![s] = ParseStorage(r.txt)]
                      /\ storage_sha' = [storage_sha EXCEPT ![s] = r.sha]
                      /\ h' = [h EXCEPT ![s] =
                                 [StartHist(s) EXCEPT !.src = "remote", !.base = r.sha]]
              /\ UNCHANGED localFile
       ELSE LET l == LocalFallback(localFile) IN
            /\ localFile' = l.file
            /\ storage' = [storage EXCEPT ![s] = l.doc]
            /\ storage_sha' = [storage_sha EXCEPT ![s] = NoSha]
            /\ pc' = [pc EXCEPT ![s] = "page"]
            /\ h' = [h EXCEPT ![s] = [StartHist(s) EXCEPT !.src = "local"]]
            /\ UNCHANGED faults
    /\ UNCHANGED <<envVars, remote, backupFile, user, ret, fresh_sha,
                   backupWrites, backupCalls, lastWriter, wrapVars>>

\* Lines 144-154 and the fall-through to 166-175: the read gave None, so
\* write the default document without a token; use it if that is accepted,
\* the local file if not.
LoadInit(s) ==
    /\ pc[s] = "load_init"
    /\ \E o \in Outcomes :
         LET r == gh_put_text(remote, Dumps(default_storage), NoSha, o)
             l == LocalFallback(localFile)
         IN
         /\ faults' = faults + Failed(o)
         /\ remote' = r.file
         /\ IF r.raised
            THEN /\ pc' = [pc EXCEPT ![s] = "crashed"]
                 /\ UNCHANGED <<storage, storage_sha, h, localFile, lastWriter>>
            ELSE IF r.ok
            THEN /\ storage' = [storage EXCEPT ![s] = default_storage]
                 /\ storage_sha' = [storage_sha EXCEPT ![s] = NoSha]
                 /\ h' = [h EXCEPT ![s].src = "created"]
                 /\ lastWriter' = s
                 /\ pc' = [pc EXCEPT ![s] = "backup"]
                 /\ UNCHANGED localFile
            ELSE /\ localFile' = l.file
                 /\ storage' = [storage EXCEPT ![s] = l.doc]
                 /\ storage_sha' = [storage_sha EXCEPT ![s] = NoSha]
                 /\ h' = [h EXCEPT ![s].src = "local"]
                 /\ pc' = [pc EXCEPT ![s] = "backup"]
                 /\ UNCHANGED lastWriter
    /\ UNCHANGED <<envVars, backupFile, user, runs, ret, fresh_sha,
                   backupWrites, backupCalls, wrapVars>>

\* ------------------------------------------------------------------ persist
\* persist() is called: save_storage(storage, storage_sha) starts.
CallPersist(hs, sha) ==
    [hs EXCEPT !.saves = @ + 1, !.shaIn = sha, !.calls = <<>>]

\* save_storage returns: the history of the finished call.
Returned(hs, how, doc) == [hs EXCEPT !.outcome = how, !.saved = Dumps(doc)]

\* ensure_daily_backup has returned when its persist() returns to the page.
BackupReturns(s) == IF ret[s] = "page" THEN 1 ELSE 0

\* A retry that sends the token the call came with.
RetrySha_Held(fresh, current) == current

\* The token save_storage sends with its retry (line 184).
RetrySha(fresh, current) == fresh

\* The token save_storage returns after an accepted retry (line 189).
RetryReturn(fresh, current) == fresh

\* Line 180 (or 193-194 without the remote): the first write.
SavePut1(s) ==
    /\ pc[s] = "save_put1"
    /\ IF ghOn
       THEN \E o \in Outcomes :
              LET r == gh_put_text(remote, Dumps(storage[s]), storage_sha[s], o) IN
              /\ faults' = faults + Failed(o)
              /\ remote' = r.file
              /\ lastWriter' = IF r.ok THEN s ELSE lastWriter
              /\ h' = [h EXCEPT ![s].calls =
                         Append(@, [op |-> "put", sha |-> storage_sha[s], ok |-> r.ok])]
              /\ pc' = [pc EXCEPT ![s] =
                          IF r.raised THEN "crashed"
                          ELSE IF r.ok THEN "save_refresh" ELSE "save_fresh"]
              /\ UNCHANGED <<localFile, backupCalls>>
       ELSE /\ localFile' = FileOf(storage[s], NoSha)
            /\ h' = [h EXCEPT ![s] = Returned(@, "localonly", storage[s])]
            /\ pc' = [pc EXCEPT ![s] = ret[s]]
            /\ backupCalls' = backupCalls + BackupReturns(s)
            /\ UNCHANGED <<faults, remote, lastWriter>>
    /\ UNCHANGED <<envVars, backupFile, storage, storage_sha, user, runs, ret,
                   fresh_sha, backupWrites, wrapVars>>

\* Lines 190-191: the first write was accepted; read the new token.
SaveRefresh(s) ==
    /\ pc[s] = "save_refresh"
    /\ \E o \in Outcomes :
         LET r == gh_get_file(remote, o) IN
         /\ faults' = faults + Failed(o)
         /\ h' = [h EXCEPT ![s] =
                    Returned([@ EXCEPT !.calls =
                                 Append(@, [op |-> "get", sha |-> r.sha, ok |-> ~r.none])],
                             "first", storage[s])]
         /\ IF r.raised
            THEN /\ pc' = [pc EXCEPT ![s] = "crashed"]
                 /\ UNCHANGED <<storage_sha, backupCalls>>
            ELSE /\ storage_sha' = [storage_sha EXCEPT ![s] = r.sha]
                 /\ pc' = [pc EXCEPT ![s] = ret[s]]
                 /\ backupCalls' = backupCalls + BackupReturns(s)
    /\ UNCHANGED <<envVars, storeVars, storage, user, runs, ret, fresh_sha,
                   backupWrites, lastWriter, wrapVars>>

\* Line 183: the first write was rejected; read the file again.
SaveFresh(s) ==
    /\ pc[s] = "save_fresh"
    /\ \E o \in Outcomes :
         LET r == gh_get_file(remote, o) IN
         /\ faults' = faults + Failed(o)
         /\ fresh_sha' = [fresh_sha EXCEPT ![s] = r.sha]
         /\ h' = [h EXCEPT ![s].calls =
                    Append(@, [op |-> "get", sha |-> r.sha, ok |-> ~r.none])]
         /\ pc' = [pc EXCEPT ![s] = IF r.raised THEN "crashed" ELSE "save_put2"]
    /\ UNCHANGED <<envVars, storeVars, storage, storage_sha, user, runs, ret,
                   backupWrites, backupCalls, lastWriter, wrapVars>>

\* Lines 184-189: the retry; on a second rejection the local file.
SaveRetry(s) ==
    /\ pc[s] = "save_put2"
    /\ \E o \in Outcomes :
         LET sent == RetrySha(fresh_sha[s], storage_sha[s])
             r == gh_put_text(remote, Dumps(storage[s]), sent, o)
         IN
         /\ faults' = faults + Failed(o)
         /\ remote' = r.file
         /\ lastWriter' = IF r.ok THEN s ELSE lastWriter
         /\ fresh_sha' = [fresh_sha EXCEPT ![s] = NoSha]
         /\ IF r.raised
            THEN /\ pc' = [pc EXCEPT ![s] = "crashed"]
                 /\ h' = [h EXCEPT ![s].calls =
                            Append(@, [op |-> "put", sha |-> sent, ok |-> r.ok])]
                 /\ UNCHANGED <<storage_sha, localFile, backupCalls>>
            ELSE /\ pc' = [pc EXCEPT ![s] = ret[s]]
                 /\ backupCalls' = backupCalls + BackupReturns(s)
                 /\ h' = [h EXCEPT ![s] =
                            Returned([@ EXCEPT !.calls =
                                         Append(@, [op |-> "put", sha |-> sent, ok |-> r.ok])],
                                     IF r.ok THEN "retry" ELSE "local", storage[s])]
                 /\ IF r.ok
                    THEN /\ storage_sha' = [storage_sha EXCEPT ![s] =
                                               RetryReturn(fresh_sha[s], storage_sha[s])]
                         /\ UNCHANGED localFile
                    ELSE /\ localFile' = FileOf(storage[s], NoSha)
                         /\ UNCHANGED storage_sha
    /\ UNCHANGED <<envVars, backupFile, storage, user, runs, ret,
                   backupWrites, wrapVars>>

\* ------------------------------------------------------ ensure_daily_backup
\* An existence check read the wrong way round: the snapshot is written, as
\* an update, when it exists.
BackupRequest_Inverted(none, sha) ==
    IF none THEN [put |-> FALSE, sha |-> NoSha] ELSE [put |-> TRUE, sha |-> sha]

\* A snapshot write that is made whether or not the file exists, as an
\* update when it does.
BackupRequest_Overwrite(none, sha) == [put |-> TRUE, sha |-> sha]

\* What ensure_daily_backup does after its existence check (lines 212-213):
\* write the snapshot or not, and with which token.
BackupRequest(none, sha) ==
    IF none THEN [put |-> TRUE, sha |-> NoSha] ELSE [put |-> FALSE, sha |-> NoSha]

\* Lines 206-211, and 214-215 when the snapshot exists.
BackupCheck(s) ==
    /\ pc[s] = "backup"
    /\ IF storage[s].last_backup = Today
       THEN /\ pc' = [pc EXCEPT ![s] = "page"]
            /\ backupCalls' = backupCalls + 1
            /\ UNCHANGED <<faults, storage, ret, fresh_sha, h>>
       ELSE \E o \in Outcomes :
              LET r == gh_get_file(backupFile, o)
                  q == BackupRequest(r.none, r.sha)
              IN
              /\ faults' = faults + Failed(o)
              /\ UNCHANGED backupCalls
              /\ IF r.raised
                 THEN /\ pc' = [pc EXCEPT ![s] = "page"]
                      /\ UNCHANGED <<storage, ret, fresh_sha, h>>
                 ELSE IF q.put
                 THEN /\ pc' = [pc EXCEPT ![s] = "backup_put"]
                      /\ fresh_sha' = [fresh_sha EXCEPT ![s] = q.sha]
                      /\ UNCHANGED <<storage, ret, h>>
                 ELSE /\ storage' = [storage EXCEPT ![s].last_backup = Today]
                      /\ ret' = [ret EXCEPT ![s] = "page"]
                      /\ h' = [h EXCEPT ![s] = CallPersist(@, storage_sha[s])]
                      /\ pc' = [pc EXCEPT ![s] = "save_put1"]
                      /\ UNCHANGED fresh_sha
    /\ UNCHANGED <<envVars, storeVars, storage_sha, user, runs,
                   backupWrites, lastWriter, wrapVars>>

\* Lines 213-215: write the snapshot, set the marker, persist.
BackupPut(s) ==
    /\ pc[s] = "backup_put"
    /\ \E o \in Outcomes :
         LET r == gh_put_text(backupFile, Dumps(storage[s]), fresh_sha[s], o) IN
         /\ faults' = faults + Failed(o)
         /\ backupFile' = r.file
         /\ backupWrites' = backupWrites + (IF r.ok THEN 1 ELSE 0)
         /\ fresh_sha' = [fresh_sha EXCEPT ![s] = NoSha]
         /\ IF r.raised
            THEN /\ pc' = [pc EXCEPT ![s] = "page"]
                 /\ UNCHANGED <<storage, ret, h>>
            ELSE /\ storage' = [storage EXCEPT ![s].last_backup = Today]
                 /\ ret' = [ret EXCEPT ![s] = "page"]
                 /\ h' = [h EXCEPT ![s] = CallPersist(@, storage_sha[s])]
                 /\ pc' = [pc EXCEPT ![s] = "save_put1"]
    /\ UNCHANGED <<envVars, remote, localFile, storage_sha, user, runs,
                   backupCalls, lastWriter, wrapVars>>

\* --------------------------------------------------------------------- auth
Put(users, email, rec) ==
    [e \in DOMAIN users \cup {email} |-> IF e = email THEN rec ELSE users[e]]

Pop(users, email) == [e \in DOMAIN users \ {email} |-> users[e]]

EmptyRec == UserRec(None, None, None)     \* the dict {}

\* A user_exists that finds no account.
user_exists_Never(users, email) == FALSE

user_exists(users, email) == email \in DOMAIN users

create_user(users, email, password) ==
    Put(users, email, UserRec(Some(hash_pw(password)), None, Some("Free")))

\* authenticate with auto-repair: a record without a usable hash is accepted
\* with any password and re-hashed.
authenticate_AutoRepair(users, email, password) ==
    IF email \notin DOMAIN users
    THEN [ok |-> FALSE, users |-> users]
    ELSE LET u == users[email] IN
         IF UsableHash(u.password_hash)
         THEN [ok |-> verify_pw(password, u.password_hash[1]), users |-> users]
         ELSE [ok |-> TRUE,
               users |-> Put(users, email,
                             [u EXCEPT !.password_hash = Some(hash_pw(password)),
                                       !.password = None])]

\* authenticate: the result, and "users" after it (the legacy branch
\* rewrites the record in place).
authenticate(users, email, password) ==
    IF email \notin DOMAIN users \/ users[email] = EmptyRec
    THEN [ok |-> FALSE, users |-> users]
    ELSE LET u == users[email] IN
         IF UsableHash(u.password_hash)
         THEN [ok |-> verify_pw(password, u.password_hash[1]), users |-> users]
         ELSE IF u.password # None
         THEN IF u.password = Some(password)
              THEN [ok |-> TRUE,
                    users |-> Put(users, email,
                                  [u EXCEPT !.password_hash = Some(hash_pw(password)),
                                            !.password = None])]
              ELSE [ok |-> FALSE, users |-> users]
         ELSE [ok |-> FALSE, users |-> users]

\* ----------------------------------------------------------------- handlers
Tiers == {"Free", "Plus", "Academy", "Pro"}
EmailInputs == Emails \cup {Blank}
PasswordInputs == Passwords \cup {Blank}

Ran(s, name, email, password, authed, msg) ==
    [h[s] EXCEPT !.op = name, !.by = user[s], !.email = email, !.password = password,
                 !.before = storage[s], !.authed = authed, !.msg = msg]

\* A handler calls persist().
Persist(s, hs) ==
    /\ h' = [h EXCEPT ![s] = CallPersist([hs EXCEPT !.persisted = TRUE], storage_sha[s])]
    /\ ret' = [ret EXCEPT ![s] = "idle"]
    /\ pc' = [pc EXCEPT ![s] = "save_put1"]

\* No persist: the script runs to its end.
Finish(s, hs) ==
    /\ h' = [h EXCEPT ![s] = hs]
    /\ pc' = [pc EXCEPT ![s] = "idle"]
    /\ UNCHANGED ret

\* A sign-in handler that signs the user in without calling persist().
SignInResult_NoPersist(ok) ==
    IF ok THEN [signin |-> TRUE, persist |-> FALSE, msg |-> "Signed in"]
    ELSE [signin |-> FALSE, persist |-> FALSE,
          msg |-> "Invalid credentials or user does not exist."]

\* A sign-in handler that does not look at authenticate's result.
SignInResult_Always(ok) == [signin |-> TRUE, persist |-> TRUE, msg |-> "Signed in"]

\* What the sign-in handler does with authenticate's result (lines 574-580).
SignInResult(ok) ==
    IF ok THEN [signin |-> TRUE, persist |-> TRUE, msg |-> "Signed in"]
    ELSE [signin |-> FALSE, persist |-> FALSE,
          msg |-> "Invalid credentials or user does not exist."]

\* Sidebar, mode "Sign in", button "Sign in".
SignIn(s) ==
    /\ pc[s] = "page"
    /\ user[s] = NoOne
    /\ \E email \in EmailInputs, password \in PasswordInputs :
         LET a == authenticate(storage[s].users, email, password)
             d == SignInResult(a.ok)
             hs == Ran(s, "signin", email, password, a.ok, d.msg)
         IN
         /\ storage' = [storage EXCEPT ![s].users = a.users]
         /\ user' = [user EXCEPT ![s] = IF d.signin THEN email ELSE NoOne]
         /\ IF d.persist THEN Persist(s, hs) ELSE Finish(s, hs)
    /\ UNCHANGED <<envVars, storeVars, faults, storage_sha, runs, fresh_sha,
                   backupWrites, backupCalls, lastWriter, wrapVars>>

\* Sidebar, mode "Sign up", button "Create account".
SignUp(s) ==
    /\ pc[s] = "page"
    /\ user[s] = NoOne
    /\ \E email \in EmailInputs, password \in PasswordInputs :
         IF email = Blank \/ password = Blank
         THEN /\ Finish(s, Ran(s, "signup", email, password, FALSE,
                               "Provide email and password."))
              /\ UNCHANGED storage
         ELSE IF user_exists(storage[s].users, email)
         THEN /\ Finish(s, Ran(s, "signup", email, password, FALSE,
                               "User already exists."))
              /\ UNCHANGED storage
         ELSE /\ storage' = [storage EXCEPT
                                ![s].users = create_user(@, email, password)]
              /\ Persist(s, Ran(s, "signup", email, password, FALSE,
                                "Account created - sign in now."))
    /\ UNCHANGED <<envVars, storeVars, faults, storage_sha, user, runs, fresh_sha,
                   backupWrites, backupCalls, lastWriter, wrapVars>>

\* Sidebar, button "Sign out".
SignOut(s) ==
    /\ pc[s] = "page"
    /\ user[s] # NoOne
    /\ user' = [user EXCEPT ![s] = NoOne]
    /\ Finish(s, Ran(s, "signout", Blank, Blank, FALSE, "none"))
    /\ UNCHANGED <<envVars, storeVars, faults, storage, storage_sha, runs,
                   fresh_sha, backupWrites, backupCalls, lastWriter, wrapVars>>

\* Page "Upload & Feedback", button "Analyze & Save" with a file.
Upload(s) ==
    /\ pc[s] = "page"
    /\ user[s] # NoOne
    /\ Len(storage[s].sessions) < MaxSessions
    /\ storage' = [storage EXCEPT ![s].sessions =
                      Append(@, [id |-> <<s, runs[s]>>, user |-> user[s]])]
    /\ Persist(s, Ran(s, "upload", Blank, Blank, FALSE, "Saved to history"))
    /\ UNCHANGED <<envVars, storeVars, faults, storage_sha, user, runs, fresh_sha,
                   backupWrites, backupCalls, lastWriter, wrapVars>>

\* Page "My History", button "Delete" of one of the user's records.
DeleteSession(s) ==
    /\ pc[s] = "page"
    /\ user[s] # NoOne
    /\ \E i \in 1..Len(storage[s].sessions) :
         /\ storage[s].sessions[i].user = user[s]
         /\ storage' = [storage EXCEPT ![s].sessions =
                           SelectSeq(@, LAMBDA x : x.id # storage[s].sessions[i].id)]
    /\ Persist(s, Ran(s, "delete_session", Blank, Blank, FALSE, "Deleted"))
    /\ UNCHANGED <<envVars, storeVars, faults, storage_sha, user, runs, fresh_sha,
                   backupWrites, backupCalls, lastWriter, wrapVars>>

\* storage["users"].setdefault(USER, {})["membership"] = title
SetMembership(users, email, title) ==
    Put(users, email,
        [(IF email \in DOMAIN users THEN users[email] ELSE EmptyRec)
           EXCEPT !.membership = Some(title)])

\* Page "Membership", button "Choose <title>".
ChooseMembership(s) ==
    /\ pc[s] = "page"
    /\ user[s] # NoOne
    /\ \E title \in Tiers :
         storage' = [storage EXCEPT ![s].users = SetMembership(@, user[s], title)]
    /\ Persist(s, Ran(s, "membership", Blank, Blank, FALSE, "Upgraded"))
    /\ UNCHANGED <<envVars, storeVars, faults, storage_sha, user, runs, fresh_sha,
                   backupWrites, backupCalls, lastWriter, wrapVars>>

\* An account deletion that leaves the account's session records.
DeleteUser_NoCascade(doc, USER) == [doc EXCEPT !.users = Pop(@, USER)]

\* Lines 648-649: storage["users"].pop(USER, None) and the filter of
\* storage["sessions"].
DeleteUser(doc, USER) ==
    [doc EXCEPT !.users = Pop(@, USER),
                !.sessions = SelectSeq(@, LAMBDA x : x.user # USER)]

\* Page "Account", button "Delete my account".  A signed-out session is on
\* this page too (page = "Account" in both sidebar modes), with USER None.
DeleteAccount(s) ==
    /\ pc[s] = "page"
    /\ storage' = [storage EXCEPT ![s] = DeleteUser(@, user[s])]
    /\ user' = [user EXCEPT ![s] = NoOne]
    /\ Persist(s, Ran(s, "delete_account", Blank, Blank, FALSE, "Account deleted."))
    /\ UNCHANGED <<envVars, storeVars, faults, storage_sha, runs, fresh_sha,
                   backupWrites, backupCalls, lastWriter, wrapVars>>

\* Pages "My History" and "Dashboard": the records they list.
MySessions(doc, USER) == SelectSeq(doc.sessions, LAMBDA x : x.user = USER)

\* The run ends with no button pressed.
NoAction(s) ==
    /\ pc[s] = "page"
    /\ pc' = [pc EXCEPT ![s] = "idle"]
    /\ UNCHANGED <<envVars, storeVars, faults, storage, storage_sha, user, runs,
                   ret, fresh_sha, h, backupWrites, backupCalls, lastWriter,
                   wrapVars>>

\* ------------------------------------------------------------------- export
WrapLen == 40                             \* pdf_safe_block's max_len

IsSpace(c) == c \in {" ", "\n"}           \* what \S does not match

\* Last position of the run of non-whitespace characters that starts at i.
RunEnd(t, i) ==
    LET sp == {k \in i..Len(t) : IsSpace(t[k])} IN
    IF sp = {} THEN Len(t) ELSE (CHOOSE k \in sp : \A m \in sp : k <= m) - 1

RECURSIVE breaker_Step(_, _)
\* A breaker whose slices are one character longer than max_len.
breaker_Step(run, max_len) ==
    IF Len(run) <= max_len + 1 THEN run
    ELSE SubSeq(run, 1, max_len + 1) \o <<"\n">>
         \o breaker_Step(SubSeq(run, max_len + 2, Len(run)), max_len)

RECURSIVE breaker(_, _)
\* "\n".join(s[i:i+max_len] for i in range(0, len(s), max_len))
breaker(run, max_len) ==
    IF Len(run) <= max_len THEN run
    ELSE SubSeq(run, 1, max_len) \o <<"\n">>
         \o breaker(SubSeq(run, max_len + 1, Len(run)), max_len)

RECURSIVE Sub(_, _, _)
\* re.sub(r"\S{max_len,}", breaker, text) from position i.  \S{n,} is
\* greedy, so a match at the start of a run is the whole run; a run shorter
\* than max_len has no match at any of its positions and is copied.
Sub(t, i, max_len) ==
    IF i > Len(t) THEN <<>>
    ELSE IF IsSpace(t[i]) THEN <<t[i]>> \o Sub(t, i + 1, max_len)
    ELSE LET j == RunEnd(t, i) IN
         IF j - i + 1 >= max_len
         THEN breaker(SubSeq(t, i, j), max_len) \o Sub(t, j + 1, max_len)
         ELSE SubSeq(t, i, j) \o Sub(t, j + 1, max_len)

hard_wrap_tokens(t, max_len) == IF t = <<>> THEN <<>> ELSE Sub(t, 1, max_len)

\* The export wraps one text.
HardWrap ==
    /\ wpc = "ready"
    /\ wrapped' = hard_wrap_tokens(text, WrapLen)
    /\ wpc' = "done"
    /\ UNCHANGED <<envVars, storeVars, faults, pc, storage, storage_sha, user,
                   runs, ret, fresh_sha, h, backupWrites, backupCalls,
                   lastWriter, text>>

\* Export texts: up to MaxSegs segments, each a run of letters whose length
\* is around the wrap length or a whitespace character.
Letters == <<"a", "b", "c">>
Run(n) == [i \in 1..n |-> Letters[(i % 3) + 1]]
RunLens == {1, WrapLen - 1, WrapLen, WrapLen + 1, 2 * WrapLen, 2 * WrapLen + 1}
Segs == {Run(n) : n \in RunLens} \cup {<<" ">>, <<"\n">>}

RECURSIVE TextsOf(_)
TextsOf(k) ==
    IF k = 0 THEN {<<>>}
    ELSE LET T == TextsOf(k - 1) IN T \cup {t \o g : t \in T, g \in Segs}

\* ------------------------------------------------------------ initial states
Hashed(p) == UserRec(Some(hash_pw(p)), None, Some("Free"))
Legacy(p) == UserRec(None, Some(p), Some("Free"))
Malformed == UserRec(None, None, Some("Free"))

Rec0 == [id |-> <<"A", 0>>, user |-> "a@x"]
Old(k, u) == [id |-> <<"old", k>>, user |-> u]   \* a record of an earlier day

\* Documents an earlier day left in the store.
InitDocs == {
    default_storage,
    [users |-> ("a@x" :> Hashed("p")), sessions |-> <<Rec0>>, last_backup |-> Yesterday],
    [users |-> ("a@x" :> Hashed("p") @@ "b@x" :> Hashed("q")),
     sessions |-> <<Old(1, "b@x"), Old(2, "a@x"), Old(3, "b@x")>>,
     last_backup |-> Yesterday],
    [users |-> ("a@x" :> Legacy("p") @@ "b@x" :> Malformed),
     sessions |-> <<>>, last_backup |-> Yesterday],
    [users |-> ("a@x" :> UserRec(Some(EmptyHash), Some("p"), None)
                @@ "b@x" :> UserRec(Some(GarbageHash), None, Some("Free"))),
     sessions |-> <<>>, last_backup |-> ""] }

LocalDoc == [users |-> ("b@x" :> Hashed("q")), sessions |-> <<>>, last_backup |-> ""]

InitSessions ==
    /\ faults = 0
    /\ pc = [s \in Sessions |-> "idle"]
    /\ storage = [s \in Sessions |-> default_storage]
    /\ storage_sha = [s \in Sessions |-> NoSha]
    /\ runs = [s \in Sessions |-> 0]
    /\ ret = [s \in Sessions |-> "idle"]
    /\ fresh_sha = [s \in Sessions |-> NoSha]
    /\ h = [s \in Sessions |-> NoHist]
    /\ backupWrites = 0
    /\ backupCalls = 0
    /\ lastWriter = "none"

InitCommon ==
    /\ InitSessions
    /\ text = <<>>
    /\ wrapped = <<>>
    /\ wpc = "off"

\* The remote files an earlier run left: no document yet, a document of an
\* earlier day, today's document with today's snapshot taken, or today's
\* snapshot taken and the save of the marker lost (rejected twice).
DoneToday ==
    [users |-> ("a@x" :> Hashed("p")), sessions |-> <<Rec0>>, last_backup |-> Today]

InitStores ==
    {[remote |-> NoFile, backup |-> NoFile]}
    \cup {[remote |-> FileOf(d, 1), backup |-> NoFile] : d \in InitDocs}
    \cup {[remote |-> FileOf(DoneToday, 2),
           backup |-> FileOf([DoneToday EXCEPT !.last_backup = Yesterday], 1)],
          [remote |-> FileOf([DoneToday EXCEPT !.last_backup = Yesterday], 1),
           backup |-> FileOf([DoneToday EXCEPT !.last_backup = Yesterday], 1)]}

\* One browser session, remote configured or not, the environment may fail
\* remote calls.
Init ==
    /\ InitCommon
    /\ ghOn \in BOOLEAN
    /\ \E st \in IF ghOn THEN InitStores ELSE {[remote |-> NoFile, backup |-> NoFile]} :
         remote = st.remote /\ backupFile = st.backup
    /\ localFile \in {NoFile, FileOf(LocalDoc, NoSha)}
    /\ budget = MaxFaults
    /\ limit = [s \in Sessions |-> IF s = "A" THEN MaxRuns ELSE 0]
    /\ user \in {[s \in Sessions |-> IF s = "A" THEN u ELSE NoOne] : u \in {NoOne, "a@x"}}

\* A configured and reachable remote, used by two concurrent browser
\* sessions or by one session that reloads.
InitDuo ==
    /\ InitCommon
    /\ ghOn = TRUE
    /\ \E st \in InitStores : remote = st.remote /\ backupFile = st.backup
    /\ localFile = NoFile
    /\ budget = 0
    /\ \/ /\ limit = [s \in Sessions |-> MaxRunsDuo]
          /\ user \in [Sessions -> {NoOne, "a@x"}]
       \/ /\ limit = [s \in Sessions |-> IF s = "A" THEN MaxRuns ELSE 0]
          /\ user \in {[s \in Sessions |-> IF s = "A" THEN u ELSE NoOne] : u \in {NoOne, "a@x"}}

Step(s) ==
    \/ LoadStorage(s)
    \/ LoadInit(s)
    \/ BackupCheck(s)
    \/ BackupPut(s)
    \/ SavePut1(s)
    \/ SaveRefresh(s)
    \/ SaveFresh(s)
    \/ SaveRetry(s)
    \/ SignIn(s)
    \/ SignUp(s)
    \/ SignOut(s)
    \/ Upload(s)
    \/ DeleteSession(s)
    \/ ChooseMembership(s)
    \/ DeleteAccount(s)
    \/ NoAction(s)

Next == \E s \in Sessions : Step(s)

Spec == Init /\ [][Next]_vars

StepDuo(s) ==
    \/ LoadStorage(s)
    \/ LoadInit(s)
    \/ BackupCheck(s)
    \/ BackupPut(s)
    \/ SavePut1(s)
    \/ SaveRefresh(s)
    \/ SaveFresh(s)
    \/ SaveRetry(s)
    \/ SignUp(s)
    \/ Upload(s)
    \/ NoAction(s)

NextDuo == \E s \in Sessions : StepDuo(s)

SpecDuo == InitDuo /\ [][NextDuo]_vars

\* The export's hard wrap on every text of TextsOf(MaxSegs).
InitWrap ==
    /\ InitSessions
    /\ ghOn = FALSE
    /\ remote = NoFile
    /\ backupFile = NoFile
    /\ localFile = NoFile
    /\ budget = 0
    /\ limit = [s \in Sessions |-> 0]
    /\ user = [s \in Sessions |-> NoOne]
    /\ text \in TextsOf(MaxSegs)
    /\ wrapped = <<>>
    /\ wpc = "ready"

NextWrap == HardWrap

SpecWrap == InitWrap /\ [][NextWrap]_vars

\* One browser session with a reachable remote, or with none configured,
\* that signs in, signs out and signs in again.
InitAuth ==
    /\ InitCommon
    /\ ghOn \in BOOLEAN
    /\ IF ghOn
       THEN /\ \E st \in InitStores : remote = st.remote /\ backupFile = st.backup
            /\ localFile = NoFile
       ELSE /\ remote = NoFile
            /\ backupFile = NoFile
            /\ localFile \in {NoFile} \cup {FileOf(d, NoSha) : d \in InitDocs}
    /\ budget = 0
    /\ limit = [s \in Sessions |-> IF s = "A" THEN MaxRunsAuth ELSE 0]
    /\ user = [s \in Sessions |-> NoOne]

StepAuth(s) ==
    \/ LoadStorage(s)
    \/ LoadInit(s)
    \/ BackupCheck(s)
    \/ BackupPut(s)
    \/ SavePut1(s)
    \/ SaveRefresh(s)
    \/ SaveFresh(s)
    \/ SaveRetry(s)
    \/ SignIn(s)
    \/ SignOut(s)
    \/ NoAction(s)

NextAuth == \E s \in Sessions : StepAuth(s)

SpecAuth == InitAuth /\ [][NextAuth]_vars

\* An account record carries a password credential: a password_hash or a
\* legacy plaintext password.
HasCredential(u) == u.password_hash # None \/ u.password # None

AllCredentialed(doc) == \A e \in DOMAIN doc.users : HasCredential(doc.users[e])

\* Two concurrent browser sessions with every page handler, on a reachable
\* remote whose document has a credential in every account record; a
\* session that starts signed in is signed in to an account of the document.
InitCred ==
    /\ InitCommon
    /\ ghOn = TRUE
    /\ \E st \in InitStores :
         /\ AllCredentialed(ParseStorage(st.remote.txt))
         /\ remote = st.remote
         /\ backupFile = st.backup
         /\ user \in [Sessions -> {NoOne} \cup DOMAIN ParseStorage(st.remote.txt).users]
    /\ localFile = NoFile
    /\ budget = 0
    /\ limit = [s \in Sessions |-> MaxRunsDuo]

NextCred == \E s \in Sessions : Step(s)

SpecCred == InitCred /\ [][NextCred]_vars

\* ============================================================== properties
SameRecords(d, e) == d.users = e.users /\ d.sessions = e.sessions

\* load_storage has just returned in session s: nothing of this run has
\* touched the document yet.
JustLoaded(s) ==
    /\ h[s].src # "none"
    /\ h[s].saves = 0
    /\ h[s].op = "none"
    /\ pc[s] \in {"backup", "page"}

\* The last save_storage call of session s's run has returned.
JustSaved(s) == h[s].saves >= 1 /\ pc[s] \in {"page", "idle"}

\* C1: round trip.  After save_storage(D, token) has returned, whatever its
\* outcome, the next load_storage (its remote read served) returns a
\* document with D's user and session records.
C1_RoundTrip ==
    \A s \in Sessions :
        (JustLoaded(s) /\ h[s].saved.json /\ h[s].src \in {"remote", "local"}
            /\ ~h[s].readFailed)
        => SameRecords(storage[s], h[s].saved.doc)

\* C1, the outcomes in which the remote write was accepted, or no remote is
\* configured: there the round trip holds.
C1_RoundTripAccepted ==
    \A s \in Sessions :
        (JustLoaded(s) /\ h[s].saved.json /\ h[s].src \in {"remote", "local"}
            /\ ~h[s].readFailed /\ h[s].outcome # "local")
        => SameRecords(storage[s], h[s].saved.doc)

\* C2: daily-snapshot idempotence.  The snapshot file of the day is written
\* at most once, whoever requests it and however the requests interleave,
\* and with the remote reachable it exists once two requests have returned.
C2_SnapshotOnce ==
    /\ backupWrites <= 1
    /\ (backupCalls >= 2 /\ faults = 0) => backupFile.exists

\* C2 witness: both sessions requested today's snapshot with yesterday's
\* marker, both went on to set the marker and persist, and one write of the
\* snapshot was accepted.
C2_Witness ==
    /\ backupCalls = 2
    /\ backupWrites = 1
    /\ backupFile.exists
    /\ \A s \in Sessions : h[s].src = "remote" /\ h[s].saves >= 1 /\ pc[s] = "idle"

\* C2 witness: one session requested the snapshot in two runs of its script.
C2_WitnessReload ==
    /\ backupCalls = 2
    /\ backupWrites = 1
    /\ runs["A"] = 2 /\ runs["B"] = 0

StandardHashed(rec, password) ==
    /\ UsableHash(rec.password_hash)
    /\ verify_pw(password, rec.password_hash[1])
    /\ rec.password = None

IsLegacy(u) == ~UsableHash(u.password_hash) /\ u.password # None
IsMalformed(u) == ~UsableHash(u.password_hash) /\ u.password = None

\* The sign-in handler ran in session s on an existing account record.
SignedInOn(s) == h[s].op = "signin" /\ h[s].email \in DOMAIN h[s].before.users

\* C3 as claimed: on a legacy or malformed record, authenticate returns True
\* for any supplied password and leaves the record in the standard hashed
\* form.
C3_AutoRepair ==
    \A s \in Sessions :
        SignedInOn(s) =>
            LET u == h[s].before.users[h[s].email] IN
            (IsLegacy(u) \/ IsMalformed(u)) =>
                /\ h[s].authed
                /\ StandardHashed(storage[s].users[h[s].email], h[s].password)

\* C3 amended: on a legacy record authenticate returns True exactly when the
\* supplied password equals the stored plaintext, and then the record is in
\* the standard hashed form; otherwise, and on a malformed record, it
\* returns False and leaves the record as it was.
C3_LegacyMigration ==
    \A s \in Sessions :
        SignedInOn(s) =>
            LET u == h[s].before.users[h[s].email]
                now == storage[s].users[h[s].email]
            IN
            /\ IsLegacy(u) =>
                  /\ h[s].authed <=> (u.password = Some(h[s].password))
                  /\ h[s].authed =>
                        /\ StandardHashed(now, h[s].password)
                        /\ now.membership = u.membership
                  /\ ~h[s].authed => storage[s] = h[s].before
            /\ IsMalformed(u) => ~h[s].authed /\ storage[s] = h[s].before

\* C3 witness: a sign-in on a legacy record with its plaintext succeeded and
\* the record is hashed.
C3_Witness ==
    \E s \in Sessions :
        /\ SignedInOn(s)
        /\ IsLegacy(h[s].before.users[h[s].email])
        /\ h[s].authed
        /\ StandardHashed(storage[s].users[h[s].email], h[s].password)

SavePcs == {"save_put1", "save_refresh", "save_fresh", "save_put2"}

Puts(c) == {i \in 1..Len(c) : c[i].op = "put"}

\* C4: save retry protocol.  A save_storage call makes at most two writes:
\* the first with the token the session holds; after a rejection one read,
\* then one retry with the token that read returned; nothing after that, and
\* a running call can always take its next step.
C4_RetryProtocol ==
    \A s \in Sessions :
        LET c == h[s].calls IN
        /\ Len(c) <= 3
        /\ Cardinality(Puts(c)) <= 2
        /\ Len(c) >= 1 => c[1].op = "put" /\ c[1].sha = h[s].shaIn
        /\ Len(c) >= 2 => c[2].op = "get"
        /\ Len(c) = 3 => /\ ~c[1].ok
                         /\ c[3].op = "put"
                         /\ c[3].sha = c[2].sha
        /\ (Len(c) >= 1 /\ c[1].ok) => Len(c) <= 2
        /\ pc[s] = "save_put1" => c = <<>>
        /\ pc[s] = "save_refresh" => Len(c) = 1 /\ c[1].ok
        /\ pc[s] = "save_fresh" => Len(c) = 1
        /\ pc[s] = "save_put2" => Len(c) = 2
        /\ pc[s] \in SavePcs => ENABLED Step(s)

\* C4 witness: a save whose first write was rejected has read a token that
\* differs from the one it held and its retry with that token was accepted.
C4_Witness ==
    \E s \in Sessions :
        /\ Len(h[s].calls) = 3
        /\ h[s].calls[3].ok
        /\ h[s].calls[2].sha # h[s].shaIn
        /\ h[s].shaIn # NoSha
        /\ h[s].outcome = "retry"

\* C5: failure degradation.  Whatever the remote calls answer, no operation
\* raises and the session holds a well-formed document; a save rejected
\* twice has written the whole document to the local file and kept the
\* token; a load whose read and initialisation failed holds the local
\* file's document.
C5_Degrades ==
    \A s \in Sessions :
        /\ pc[s] # "crashed"
        /\ IsStorage(storage[s])
        /\ (JustSaved(s) /\ h[s].outcome = "local") =>
              /\ localFile.exists
              /\ localFile.txt = Dumps(storage[s])
              /\ storage_sha[s] = h[s].shaIn
        /\ (JustLoaded(s) /\ h[s].src = "local") =>
              /\ localFile.exists
              /\ storage[s] = ParseStorage(localFile.txt)
              /\ storage_sha[s] = NoSha

\* C5 witness: a handler's save was rejected twice and the document with
\* the handler's change is in the local file.
C5_Witness ==
    \E s \in Sessions :
        /\ JustSaved(s)
        /\ h[s].outcome = "local"
        /\ h[s].persisted
        /\ storage[s] # h[s].before
        /\ localFile.txt = Dumps(storage[s])
        /\ faults > 0

\* C5 witness: a load fell back to the local file after a failed read.
C5_WitnessLoad ==
    \E s \in Sessions :
        JustLoaded(s) /\ h[s].src = "local" /\ h[s].readFailed /\ storage[s] = LocalDoc

Other(s) == CHOOSE t \in Sessions : t # s

\* Session s loaded the remote document, its handler changed its copy and
\* the handler's persist, the only one of the run, has returned.
OneChange(s) ==
    /\ h[s].src = "remote"
    /\ h[s].persisted
    /\ h[s].saves = 1
    /\ storage[s] # h[s].before
    /\ pc[s] = "idle"

Mismatch(u, password) ==
    \/ UsableHash(u.password_hash) /\ ~verify_pw(password, u.password_hash[1])
    \/ IsLegacy(u) /\ u.password # Some(password)

InvalidMsg == "Invalid credentials or user does not exist."

\* C7: generic credential failure.  A sign-in with an email that has no
\* account record, or with a password that does not match the stored
\* credential: authenticate returns False, the document is unchanged, nobody
\* is signed in, persist is not called and the one message is shown.
C7_GenericFailure ==
    \A s \in Sessions :
        (h[s].op = "signin" /\
            (\/ h[s].email \notin DOMAIN h[s].before.users
             \/ Mismatch(h[s].before.users[h[s].email], h[s].password)))
        => /\ ~h[s].authed
           /\ storage[s] = h[s].before
           /\ user[s] = NoOne
           /\ ~h[s].persisted
           /\ pc[s] = "idle"
           /\ h[s].msg = InvalidMsg

\* C7 witness: a failed sign-in on an unknown email.
C7_WitnessUnknown ==
    \E s \in Sessions :
        /\ h[s].op = "signin"
        /\ h[s].email \in Emails
        /\ h[s].email \notin DOMAIN h[s].before.users
        /\ h[s].msg = InvalidMsg

\* C7 witness: a failed sign-in with a wrong password on a hashed record.
C7_Witness ==
    \E s \in Sessions :
        /\ SignedInOn(s)
        /\ UsableHash(h[s].before.users[h[s].email].password_hash)
        /\ Mismatch(h[s].before.users[h[s].email], h[s].password)
        /\ h[s].msg = InvalidMsg
        /\ user[s] = NoOne

Spaces(t) == {k \in 1..Len(t) : IsSpace(t[k])}

\* Position i of t is in a run of non-whitespace characters and a positive
\* multiple of WrapLen characters of the run precede it.
BreakBefore(t, sp, i) ==
    LET before == {k \in sp : k <= i}
        last == IF before = {} THEN 0
                ELSE CHOOSE k \in before : \A m \in before : m <= k
    IN  last < i /\ i - last - 1 > 0 /\ (i - last - 1) % WrapLen = 0

\* out is t with a line break put in before every position that
\* BreakBefore names, and nothing else changed.
IsWithBreaks(out, t) ==
    LET sp == Spaces(t)
        br == {i \in 1..Len(t) : BreakBefore(t, sp, i)}
        nb(i) == Cardinality({k \in br : k <= i})
    IN
    /\ Len(out) = Len(t) + Cardinality(br)
    /\ \A i \in 1..Len(t) : out[i + nb(i)] = t[i]
    /\ \A i \in br : out[i + nb(i) - 1] = "\n"

\* t has a run of n non-whitespace characters.
HasRun(t, n) ==
    \E i \in 1..(Len(t) - n + 1) : \A k \in i..(i + n - 1) : ~IsSpace(t[k])

\* C8: export hard wrap.  hard_wrap_tokens(text, 40) has no run of more
\* than 40 non-whitespace characters; it is the text with a line break put
\* in after every 40 characters of a run that has more to come, so taking
\* those breaks out gives the text back; a text with no run of 40 or more
\* is returned as it is.
C8_HardWrap ==
    wpc = "done" =>
        /\ ~HasRun(wrapped, WrapLen + 1)
        /\ IsWithBreaks(wrapped, text)
        /\ ~HasRun(text, WrapLen) => wrapped = text
        /\ Len(wrapped) >= Len(text)

\* C8 witness: a text with whitespace and a run of more than twice the wrap
\* length came out with two line breaks more.
C8_Witness ==
    /\ wpc = "done"
    /\ HasRun(text, 2 * WrapLen + 1)
    /\ Spaces(text) # {}
    /\ Len(wrapped) = Len(text) + 2
    /\ ~HasRun(wrapped, WrapLen + 1)

\* C9: a transient read failure never destroys remote data.  A session whose
\* load could not read the existing remote document and fell back to the
\* local file makes no write that changes the remote document's user or
\* session records.
C9_NoClobber ==
    [][\A s \in Sessions :
          (/\ h[s].readFailed
           /\ h[s].src = "local"
           /\ pc[s] \in {"save_put1", "save_put2"}
           /\ pc'[s] # pc[s]
           /\ remote.exists
           /\ remote' # remote)
          => SameRecords(ParseStorage(remote'.txt), ParseStorage(remote.txt))]_vars

\* C10: the held token is current.  With the remote reachable and no other
\* writer, after load_storage returned a remote document (read or created)
\* and after a save that ended with an accepted write, storage_sha is the
\* remote file's revision token.
C10_TokenCurrent ==
    \A s \in Sessions :
        (/\ ghOn
         /\ faults = 0
         /\ \/ JustLoaded(s) /\ h[s].src \in {"remote", "created"}
            \/ JustSaved(s) /\ h[s].outcome \in {"first", "retry"})
        => storage_sha[s] = remote.sha

\* C10, the part that holds: after a read of the remote document and after
\* a save accepted on its first write.
C10_TokenCurrentFirst ==
    \A s \in Sessions :
        (/\ ghOn
         /\ faults = 0
         /\ \/ JustLoaded(s) /\ h[s].src = "remote"
            \/ JustSaved(s) /\ h[s].outcome = "first")
        => storage_sha[s] = remote.sha

\* The last-backup marker of the document a file holds.
MarkerOf(file) == IF file.exists THEN ParseStorage(file.txt).last_backup ELSE ""

\* C11: backup marker implies snapshot.  Whenever the last-backup marker of
\* a document (a session's, the remote file's or the local file's) is
\* today's date, today's snapshot file exists in the remote store, also
\* after a failed snapshot write or a failed existence check.
C11_MarkerImpliesSnapshot ==
    /\ \A s \in Sessions : storage[s].last_backup = Today => backupFile.exists
    /\ MarkerOf(remote) = Today => backupFile.exists
    /\ MarkerOf(localFile) = Today => backupFile.exists

\* C12: the snapshot is write-once.  No step changes a snapshot file that
\* exists, whichever session requests the backup and whatever its document
\* or the result of its existence check; and a snapshot write is only ever
\* about to be issued without a revision token.
C12_WriteOnce ==
    [][/\ backupFile.exists => backupFile' = backupFile
       /\ \A s \in Sessions : pc'[s] = "backup_put" => fresh_sha'[s] = NoSha]_vars

\* C12 witness: the snapshot existed from the start, a session read the
\* remote document in its first run, the one failed call was its existence
\* check (a served check would have found the snapshot), so its create was
\* issued and refused; the snapshot is the one that was there and the
\* session has gone on to set the marker and persist.
C12_Witness ==
    \E s \in Sessions :
        /\ runs[s] = 1
        /\ h[s].src = "remote"
        /\ faults = 1
        /\ pc[s] = "save_put1" /\ ret[s] = "page" /\ h[s].calls = <<>>
        /\ fresh_sha[s] = NoSha
        /\ backupFile.exists
        /\ backupWrites = 0
        /\ storage[s].last_backup = Today
        /\ ParseStorage(backupFile.txt).last_backup = Yesterday

\* The document in the store a session reads at its next load.
StoredDoc == ParseStorage(IF ghOn THEN remote.txt ELSE localFile.txt)

\* C13: legacy migration is durable and one-shot.  A sign-in accepted on a
\* legacy record leaves the record hashed and without plaintext and calls
\* persist, and when the save has returned the stored document holds the
\* hashed record; a sign-in of a later run on that account finds the hashed
\* record, succeeds exactly with the migrated password and rewrites
\* nothing.  A sign-in with a wrong password on a legacy record is rejected
\* and leaves the document as it was.
C13_MigrationDurable ==
    \A s \in Sessions :
        SignedInOn(s) =>
            LET e == h[s].email
                u == h[s].before.users[e]
            IN
            /\ (IsLegacy(u) /\ h[s].authed) =>
                  /\ StandardHashed(storage[s].users[e], h[s].password)
                  /\ h[s].persisted
                  /\ user[s] = e
                  /\ pc[s] = "idle" =>
                        /\ e \in DOMAIN StoredDoc.users
                        /\ StandardHashed(StoredDoc.users[e], h[s].password)
            /\ (IsLegacy(u) /\ u.password # Some(h[s].password)) =>
                  /\ ~h[s].authed
                  /\ storage[s] = h[s].before
                  /\ ~h[s].persisted
            /\ \A m \in h[s].migrated :
                  m[1] = e =>
                     /\ StandardHashed(u, m[2])
                     /\ h[s].authed <=> (h[s].password = m[2])
                     /\ storage[s] = h[s].before

\* C13 witness: a sign-in migrated a legacy record in an earlier run, and a
\* sign-in of a later run with the same password has succeeded on the
\* hashed record.
C13_Witness ==
    \E s \in Sessions :
        /\ SignedInOn(s)
        /\ h[s].authed
        /\ <<h[s].email, h[s].password>> \in h[s].migrated
        /\ StandardHashed(h[s].before.users[h[s].email], h[s].password)
        /\ pc[s] = "idle"

\* C13 witness: after the migration a sign-in with another password has
\* been rejected.
C13_WitnessRejected ==
    \E s \in Sessions :
        /\ SignedInOn(s)
        /\ ~h[s].authed
        /\ \E m \in h[s].migrated : m[1] = h[s].email /\ m[2] # h[s].password

\* C14: every account record has a credential.  Starting from a document
\* whose records all have one, every entry of "users" in a session's
\* document, in the remote document and in the local file carries a
\* password_hash or a legacy plaintext password, whatever the sessions do.
C14_Credentialed ==
    /\ \A s \in Sessions : AllCredentialed(storage[s])
    /\ remote.exists => AllCredentialed(ParseStorage(remote.txt))
    /\ localFile.exists => AllCredentialed(ParseStorage(localFile.txt))

\* The records of seq whose user is not U, in seq's order: the k-th of them
\* is the record at the k-th smallest index that holds another user's record.
OthersOf(seq, U) ==
    LET I == {i \in 1..Len(seq) : seq[i].user # U} IN
    [k \in 1..Cardinality(I) |->
        seq[CHOOSE i \in I : Cardinality({j \in I : j <= i}) = k]]

\* C15: account deletion cascades.  After the signed-in user U deleted
\* their account the session's document has no account U and no session
\* record of U, every other account record and the other users' session
\* records are as before and in their order, persist was called and the
\* session is signed out.
C15_DeletionCascades ==
    \A s \in Sessions :
        (h[s].op = "delete_account" /\ h[s].by # NoOne) =>
            LET U == h[s].by
                b == h[s].before
                d == storage[s]
            IN
            /\ U \notin DOMAIN d.users
            /\ \A i \in 1..Len(d.sessions) : d.sessions[i].user # U
            /\ DOMAIN d.users = DOMAIN b.users \ {U}
            /\ \A e \in DOMAIN d.users : d.users[e] = b.users[e]
            /\ d.sessions = OthersOf(b.sessions, U)
            /\ d.last_backup = b.last_backup
            /\ h[s].persisted
            /\ user[s] = NoOne

\* C15 witness: a user with an account and a session record deleted their
\* account from a document that holds another account and two session
\* records of that other user around the deleted one; the save has returned.
C15_Witness ==
    \E s \in Sessions :
        /\ h[s].op = "delete_account"
        /\ h[s].by = "a@x"
        /\ DOMAIN h[s].before.users = {"a@x", "b@x"}
        /\ Len(h[s].before.sessions) = 3
        /\ h[s].before.sessions[2].user = "a@x"
        /\ Len(storage[s].sessions) = 2
        /\ pc[s] = "idle"

\* C16: sign-up never overwrites.  "Create account" with an email that has
\* an account, or with an empty email or password, leaves the document as
\* it was and does not persist; with a new email it adds exactly one record,
\* whose hash verifies the given password and whose membership is "Free",
\* changes nothing else and persists.  The session stays signed out.
C16_SignUpNoOverwrite ==
    \A s \in Sessions :
        h[s].op = "signup" =>
            LET e == h[s].email
                b == h[s].before
                d == storage[s]
            IN
            /\ user[s] = NoOne
            /\ IF e = Blank \/ h[s].password = Blank \/ e \in DOMAIN b.users
               THEN d = b /\ ~h[s].persisted
               ELSE /\ DOMAIN d.users = DOMAIN b.users \cup {e}
                    /\ \A x \in DOMAIN b.users : d.users[x] = b.users[x]
                    /\ StandardHashed(d.users[e], h[s].password)
                    /\ d.users[e].membership = Some("Free")
                    /\ d.sessions = b.sessions
                    /\ d.last_backup = b.last_backup
                    /\ h[s].persisted

\* C16 witness: a sign-up with the email of an existing account and another
\* password was refused.
C16_Witness ==
    \E s \in Sessions :
        /\ h[s].op = "signup"
        /\ h[s].email \in DOMAIN h[s].before.users
        /\ h[s].password # Blank
        /\ ~StandardHashed(h[s].before.users[h[s].email], h[s].password)
        /\ h[s].msg = "User already exists."
        /\ pc[s] = "idle"

\* C16 witness: a sign-up with a new email added its record to a document
\* that held another account, and the save has returned.
C16_WitnessNew ==
    \E s \in Sessions :
        /\ h[s].op = "signup"
        /\ h[s].persisted
        /\ h[s].before.users # NoUsers
        /\ h[s].email \notin DOMAIN h[s].before.users
        /\ h[s].email \in DOMAIN storage[s].users
        /\ pc[s] = "idle"

\* C17: signed-out sessions cannot mutate data.  Upload, session deletion,
\* membership change and account deletion run only with a signed-in user; a
\* handler that ran signed out and changed the document or called persist
\* is a sign-up or an accepted sign-in; and the history pages list only
\* records of the signed-in user.
C17_SignedOutInert ==
    \A s \in Sessions :
        /\ h[s].op \in {"upload", "delete_session", "membership", "delete_account"}
              => h[s].by # NoOne
        /\ (/\ h[s].op # "none"
            /\ h[s].by = NoOne
            /\ h[s].persisted \/ storage[s] # h[s].before)
              => h[s].op = "signup" \/ (h[s].op = "signin" /\ h[s].authed)
        /\ \A i \in 1..Len(MySessions(storage[s], user[s])) :
              MySessions(storage[s], user[s])[i].user = user[s]

\* C18: load never clobbers.  The write with which load_storage initialises
\* the remote document changes the remote file only when none exists, and
\* then to the default empty document, which the session uses; when a
\* remote document exists (the read failed, or another session created it)
\* the write leaves it as it is and the session takes the local fallback.
C18_LoadNoClobber ==
    [][\A s \in Sessions :
          (pc[s] = "load_init" /\ pc'[s] # "load_init") =>
              IF remote.exists
              THEN /\ remote' = remote
                   /\ h'[s].src = "local"
                   /\ localFile'.exists
                   /\ storage'[s] = ParseStorage(localFile'.txt)
              ELSE remote' # remote =>
                   /\ remote'.txt = Dumps(default_storage)
                   /\ h'[s].src = "created"
                   /\ storage'[s] = default_storage]_vars

\* C18 witness: the read of an existing remote document with accounts
\* failed, the initialisation write was served and refused, the remote file
\* is the one that was there and the session holds the local file's
\* document.
C18_Witness ==
    \E s \in Sessions :
        /\ pc[s] = "backup"
        /\ h[s].readFailed
        /\ h[s].src = "local"
        /\ runs[s] = 1
        /\ faults = 1
        /\ remote.exists
        /\ remote.sha = 1
        /\ ParseStorage(remote.txt).users # NoUsers
        /\ localFile.exists
        /\ storage[s] = ParseStorage(localFile.txt)
        /\ storage[s].users # ParseStorage(remote.txt).users

====
